---- MODULE Spec2Model ----
(***************************************************************************)
(* Model of the secret_lottery contract: the Config ("config") and Pool    *)
(* ("pool") singletons kept in the host's key-value storage, the init      *)
(* entry point, the three administrative handlers CrtePool / LockPool /    *)
(* ClsePool, and the two queries.                                          *)
(*                                                                         *)
(* Block times are u64.  TLC integers are 32 bits wide, so a u64 is kept   *)
(* as three limbs <<h, m, l>> standing for h * 2^60 + m * 2^30 + l, with   *)
(* h < 2^4 and m, l < 2^30; addition is carried limb by limb and the       *)
(* carry out of the top limb is the u64 overflow.                          *)
(***************************************************************************)
EXTENDS Integers, Sequences, FiniteSets, TLC

\* ------------------------------------------------------------------ bounds
\* number of distinct callers
NumSenders == 2
\* clock values are sampled within ClockSlack seconds of every base time
ClockSlack == 1

\* ------------------------------------------------------------ u64 numbers
LimbBase == 1073741824
TopBase == 16

U64(n) == <<0, 0, n>>
U64_MAX == <<TopBase - 1, LimbBase - 1, LimbBase - 1>>

\* the exact sum, before it is reduced to 64 bits: the top limb may reach 2^4
WideSum(a, b) ==
    LET l == a[3] + b[3]
        m == a[2] + b[2] + (l \div LimbBase)
        h == a[1] + b[1] + (m \div LimbBase)
    IN  <<h, m % LimbBase, l % LimbBase>>

AddOverflows(a, b) == WideSum(a, b)[1] >= TopBase

WrappingAdd(a, b) ==
    LET s == WideSum(a, b) IN <<s[1] % TopBase, s[2], s[3]>>

\* a - b for a >= b
SubU64(a, b) ==
    LET l == a[3] - b[3]
        bl == IF l < 0 THEN 1 ELSE 0
        m == a[2] - b[2] - bl
        bm == IF m < 0 THEN 1 ELSE 0
        h == a[1] - b[1] - bm
    IN  <<h, m + bm * LimbBase, l + bl * LimbBase>>

\* the u64 that is n below 2^64 (two's complement of n), 1 <= n < 2^30
BelowWrap(n) == <<TopBase - 1, LimbBase - 1, LimbBase - n>>

Gt(a, b) ==
    \/ a[1] > b[1]
    \/ a[1] = b[1] /\ a[2] > b[2]
    \/ a[1] = b[1] /\ a[2] = b[2] /\ a[3] > b[3]

Ge(a, b) == a = b \/ Gt(a, b)

\* ---------------------------------------------------------------- state.rs
CONFIG_KEY == "config"
POOL_KEY == "pool"
DAYS == 86400

OPEN == "OPEN"
LOCKED == "LOCKED"
CLOSED == "CLOSED"
PoolStatus == {OPEN, LOCKED, CLOSED}

\* ------------------------------------------------------------- StdResult
Ok(v) == [ok |-> TRUE, val |-> v]
Err(e) == [ok |-> FALSE, err |-> e]

Unauthorized == [kind |-> "Unauthorized", msg |-> ""]
GenericErr(m) == [kind |-> "GenericErr", msg |-> m]
NotFound(t) == [kind |-> "NotFound", msg |-> t]
ParseErr(t) == [kind |-> "ParseErr", msg |-> t]
\* an arithmetic panic traps the invocation; the host aborts the transaction
Panic == [kind |-> "Panic", msg |-> "attempt to add with overflow"]

\* --------------------------------------------------------------- host Api
HumanAddrs == <<"creator", "voter", "anyone", "nobody">>
Senders == {HumanAddrs[i] : i \in 1..NumSenders}

\* canonical_address : human address -> opaque canonical form
canonical_address(h) == CHOOSE i \in 1..Len(HumanAddrs) : HumanAddrs[i] = h
\* human_address : the inverse
human_address(c) == HumanAddrs[c]

\* ------------------------------------------------------------------ clock
\* the block times of the tests and of the lifecycle that starts at 1000
BaseTimes == {0, 1000, 1000 + DAYS, 1000 + 22 * DAYS, 1001 + 21 * DAYS}

\* seconds after and seconds before a base time
Offsets == {U64(d) : d \in 0..ClockSlack} \cup {BelowWrap(d) : d \in 1..ClockSlack}

\* env.block.time is any u64: the sample wraps below 0, so it holds the
\* largest block times (U64_MAX, ...) next to the small ones
Times == {WrappingAdd(U64(b), o) : b \in BaseTimes, o \in Offsets}

\* initializer remembers the sender of the latest init call ("" before any)
VARIABLES storage, overflow_checks, last, initializer

vars == <<storage, overflow_checks, last, initializer>>

\* ------------------------------------------------------- storage singleton
\* the stored value has the fields of the type it is read as
Deserializes(v, type) ==
    IF type = "Pool"
    THEN DOMAIN v = {"delegated_amt", "delegators", "status", "status_updated_at"}
    ELSE DOMAIN v = {"count", "owner"}

\* a missing key is NotFound, a value of another shape is a parse error
load(st, key, type) ==
    IF key \notin DOMAIN st THEN Err(NotFound(type))
    ELSE IF ~Deserializes(st[key], type) THEN Err(ParseErr(type))
    ELSE Ok(st[key])

\* a save that forgets the other record
save_alone(st, key, v) == [k \in {key} |-> v]

save(st, key, v) ==
    [k \in DOMAIN st \cup {key} |-> IF k = key THEN v ELSE st[k]]

\* ------------------------------------------------------------------- Pool
\* a creation that forgets the block time
Pool_new_epoch(time) ==
    [delegated_amt |-> 0, delegators |-> <<>>, status |-> OPEN,
     status_updated_at |-> U64(0)]

\* a creation that starts with one unit delegated
Pool_new_funded(time) ==
    [delegated_amt |-> 1, delegators |-> <<>>, status |-> OPEN,
     status_updated_at |-> time]

Pool_new(time) ==
    [delegated_amt |-> 0, delegators |-> <<>>, status |-> OPEN,
     status_updated_at |-> time]

\* "not CLOSED" taken for OPEN
is_open_unless_closed(self) == self.status # CLOSED

is_open(self) == self.status = OPEN
\* "not OPEN" taken for LOCKED
is_locked_unless_open(self) == self.status # OPEN

is_locked(self) == self.status = LOCKED
\* "not OPEN" taken for CLOSED
is_closed_unless_open(self) == self.status # OPEN

is_closed(self) == self.status = CLOSED

lock(self, time) ==
    [self EXCEPT !.status = LOCKED, !.status_updated_at = time]

close(self, time) ==
    [self EXCEPT !.status = CLOSED, !.status_updated_at = time]

\* status_updated_at + n * DAYS > curr_time, in u64.  An overflowing sum
\* panics when the build checks overflow and wraps around when it does not.
\* >= written for >: the transition is refused at the deadline itself
deadline_passed_inclusive(checks, updated_at, dwell, curr_time) ==
    IF AddOverflows(updated_at, dwell) /\ checks
    THEN "panic"
    ELSE IF Ge(WrappingAdd(updated_at, dwell), curr_time) THEN "early" ELSE "ready"

deadline_passed(checks, updated_at, dwell, curr_time) ==
    IF AddOverflows(updated_at, dwell) /\ checks
    THEN "panic"
    ELSE IF Gt(WrappingAdd(updated_at, dwell), curr_time) THEN "early" ELSE "ready"

\* the LOCKED arm taken for every status but OPEN
assert_ready_for_status_change_catch_all(checks, self, curr_time) ==
    IF self.status = OPEN
    THEN LET d == deadline_passed(checks, self.status_updated_at, U64(1 * DAYS), curr_time)
         IN  IF d = "panic" THEN Err(Panic)
             ELSE IF d = "early" THEN Err(GenericErr("Pool has to be OPEN for 1 day"))
             ELSE Ok(<<>>)
    ELSE LET d == deadline_passed(checks, self.status_updated_at, U64(21 * DAYS), curr_time)
         IN  IF d = "panic" THEN Err(Panic)
             ELSE IF d = "early" THEN Err(GenericErr("Pool has to be LOCKED for 21 day"))
             ELSE Ok(<<>>)

assert_ready_for_status_change(checks, self, curr_time) ==
    IF self.status = OPEN
    THEN LET d == deadline_passed(checks, self.status_updated_at, U64(1 * DAYS), curr_time)
         IN  IF d = "panic" THEN Err(Panic)
             ELSE IF d = "early" THEN Err(GenericErr("Pool has to be OPEN for 1 day"))
             ELSE Ok(<<>>)
    ELSE IF self.status = LOCKED
    THEN LET d == deadline_passed(checks, self.status_updated_at, U64(21 * DAYS), curr_time)
         IN  IF d = "panic" THEN Err(Panic)
             ELSE IF d = "early" THEN Err(GenericErr("Pool has to be LOCKED for 21 day"))
             ELSE Ok(<<>>)
    ELSE Ok(<<>>)

\* ------------------------------------------------------------ contract.rs
\* the owner compared with itself
assert_sender_is_admin_self(sender, owner) ==
    IF owner # owner THEN Err(Unauthorized) ELSE Ok(<<>>)

\* the comparison inverted
assert_sender_is_admin_inverted(sender, owner) ==
    IF owner = sender THEN Err(Unauthorized) ELSE Ok(<<>>)

assert_sender_is_admin(sender, owner) ==
    IF owner # sender THEN Err(Unauthorized) ELSE Ok(<<>>)

\* every handler yields its result and the storage the host commits
Outcome(res, st) == [res |-> res, storage |-> st]

\* an init that keeps the owner of an already initialized contract
init_once(st, sender) ==
    LET state == [count |-> 0, owner |-> canonical_address(sender)]
    IN  IF CONFIG_KEY \in DOMAIN st
        THEN Outcome(Ok("InitResponse"), st)
        ELSE Outcome(Ok("InitResponse"), save(st, CONFIG_KEY, state))

init(st, sender) ==
    LET state == [count |-> 0, owner |-> canonical_address(sender)]
    IN  Outcome(Ok("InitResponse"), save(st, CONFIG_KEY, state))

\* a failed Config load taken for "nobody to check against"
admin_create_pool_unchecked(st, sender, time) ==
    LET state == load(st, CONFIG_KEY, "State")
        auth == IF state.ok
                THEN assert_sender_is_admin(canonical_address(sender), state.val.owner)
                ELSE Ok(<<>>)
    IN
    IF ~auth.ok THEN Outcome(auth, st) ELSE
    LET res == load(st, POOL_KEY, "Pool")
        can_create == IF res.ok THEN is_closed(res.val) ELSE TRUE
    IN
    IF ~can_create THEN Outcome(Err(GenericErr("Cannot create")), st) ELSE
    Outcome(Ok("HandleResponse"), save(st, POOL_KEY, Pool_new(time)))

admin_create_pool(st, sender, time) ==
    LET state == load(st, CONFIG_KEY, "State") IN
    IF ~state.ok THEN Outcome(state, st) ELSE
    LET auth == assert_sender_is_admin(canonical_address(sender), state.val.owner) IN
    IF ~auth.ok THEN Outcome(auth, st) ELSE
    LET res == load(st, POOL_KEY, "Pool")
        can_create == IF res.ok THEN is_closed(res.val) ELSE TRUE
    IN
    IF ~can_create THEN Outcome(Err(GenericErr("Cannot create")), st) ELSE
    Outcome(Ok("HandleResponse"), save(st, POOL_KEY, Pool_new(time)))

\* the dwell check run before the status check
admin_lock_pool_dwell_first(checks, st, sender, time) ==
    LET state == load(st, CONFIG_KEY, "State") IN
    IF ~state.ok THEN Outcome(state, st) ELSE
    LET auth == assert_sender_is_admin(canonical_address(sender), state.val.owner) IN
    IF ~auth.ok THEN Outcome(auth, st) ELSE
    LET pool == load(st, POOL_KEY, "Pool") IN
    IF ~pool.ok THEN Outcome(pool, st) ELSE
    LET ready == assert_ready_for_status_change(checks, pool.val, time) IN
    IF ~ready.ok THEN Outcome(ready, st) ELSE
    IF ~is_open(pool.val)
    THEN Outcome(Err(GenericErr("Pool must be in OPEN status to be locked.")), st) ELSE
    Outcome(Ok("HandleResponse"), save(st, POOL_KEY, lock(pool.val, time)))

admin_lock_pool(checks, st, sender, time) ==
    LET state == load(st, CONFIG_KEY, "State") IN
    IF ~state.ok THEN Outcome(state, st) ELSE
    LET auth == assert_sender_is_admin(canonical_address(sender), state.val.owner) IN
    IF ~auth.ok THEN Outcome(auth, st) ELSE
    LET pool == load(st, POOL_KEY, "Pool") IN
    IF ~pool.ok THEN Outcome(pool, st) ELSE
    IF ~is_open(pool.val)
    THEN Outcome(Err(GenericErr("Pool must be in OPEN status to be locked.")), st) ELSE
    LET ready == assert_ready_for_status_change(checks, pool.val, time) IN
    IF ~ready.ok THEN Outcome(ready, st) ELSE
    Outcome(Ok("HandleResponse"), save(st, POOL_KEY, lock(pool.val, time)))

\* the pool closed and persisted before the dwell check
admin_close_pool_eager(checks, st, sender, time) ==
    LET state == load(st, CONFIG_KEY, "State") IN
    IF ~state.ok THEN Outcome(state, st) ELSE
    LET auth == assert_sender_is_admin(canonical_address(sender), state.val.owner) IN
    IF ~auth.ok THEN Outcome(auth, st) ELSE
    LET pool == load(st, POOL_KEY, "Pool") IN
    IF ~pool.ok THEN Outcome(pool, st) ELSE
    IF ~is_locked(pool.val)
    THEN Outcome(Err(GenericErr("Pool is not LOCKED.")), st) ELSE
    LET ready == assert_ready_for_status_change(checks, pool.val, time)
        saved == save(st, POOL_KEY, close(pool.val, time))
    IN
    IF ~ready.ok THEN Outcome(ready, saved) ELSE
    Outcome(Ok("HandleResponse"), saved)

admin_close_pool(checks, st, sender, time) ==
    LET state == load(st, CONFIG_KEY, "State") IN
    IF ~state.ok THEN Outcome(state, st) ELSE
    LET auth == assert_sender_is_admin(canonical_address(sender), state.val.owner) IN
    IF ~auth.ok THEN Outcome(auth, st) ELSE
    LET pool == load(st, POOL_KEY, "Pool") IN
    IF ~pool.ok THEN Outcome(pool, st) ELSE
    IF ~is_locked(pool.val)
    THEN Outcome(Err(GenericErr("Pool is not LOCKED.")), st) ELSE
    LET ready == assert_ready_for_status_change(checks, pool.val, time) IN
    IF ~ready.ok THEN Outcome(ready, st) ELSE
    Outcome(Ok("HandleResponse"), save(st, POOL_KEY, close(pool.val, time)))

query_owner(st) ==
    LET state == load(st, CONFIG_KEY, "State") IN
    IF ~state.ok THEN state ELSE Ok([owner |-> human_address(state.val.owner)])

\* the snapshot dropped: null whatever is stored
query_pool_null(st) ==
    LET pool == load(st, POOL_KEY, "Pool") IN
    Ok([pool |-> IF pool.ok THEN <<>> ELSE <<>>])

query_pool(st) ==
    LET pool == load(st, POOL_KEY, "Pool") IN
    Ok([pool |-> IF pool.ok THEN <<pool.val>> ELSE <<>>])

\* ---------------------------------------------------------------- actions
\* `last` is the record of the latest invocation: the message, its environment,
\* the storage it ran on and the result it returned to the host.
Invocation(op, sender, time, before, res) ==
    [op |-> op, sender |-> sender, time |-> time, before |-> before, res |-> res]

Init ==
    /\ storage = <<>>
    /\ overflow_checks \in BOOLEAN
    /\ last = Invocation("none", "", U64(0), <<>>, Ok("none"))
    /\ initializer = ""

\* init never reads env.block.time, and query receives no Env at all
InitContract ==
    \E sender \in Senders :
        LET out == init(storage, sender) IN
        /\ storage' = out.storage
        /\ last' = Invocation("Init", sender, U64(0), storage, out.res)
        /\ initializer' = sender
        /\ UNCHANGED overflow_checks

CrtePool ==
    \E sender \in Senders, time \in Times :
        LET out == admin_create_pool(storage, sender, time) IN
        /\ storage' = out.storage
        /\ last' = Invocation("CrtePool", sender, time, storage, out.res)
        /\ UNCHANGED <<overflow_checks, initializer>>

LockPool ==
    \E sender \in Senders, time \in Times :
        LET out == admin_lock_pool(overflow_checks, storage, sender, time) IN
        /\ storage' = out.storage
        /\ last' = Invocation("LockPool", sender, time, storage, out.res)
        /\ UNCHANGED <<overflow_checks, initializer>>

ClsePool ==
    \E sender \in Senders, time \in Times :
        LET out == admin_close_pool(overflow_checks, storage, sender, time) IN
        /\ storage' = out.storage
        /\ last' = Invocation("ClsePool", sender, time, storage, out.res)
        /\ UNCHANGED <<overflow_checks, initializer>>

GetOwner ==
    /\ last' = Invocation("GetOwner", "", U64(0), storage, query_owner(storage))
    /\ UNCHANGED <<storage, overflow_checks, initializer>>

GetCurrentPool ==
    /\ last' = Invocation("GetCurrentPool", "", U64(0), storage, query_pool(storage))
    /\ UNCHANGED <<storage, overflow_checks, initializer>>

Next ==
    \/ InitContract
    \/ CrtePool
    \/ LockPool
    \/ ClsePool
    \/ GetOwner
    \/ GetCurrentPool

Spec == Init /\ [][Next]_vars

\* The storage belongs to the host: a contract may be started on a storage
\* whose "pool" key already holds a value that is not a serialized Pool
\* (written under another schema).  Same operations, that storage at start.
Undecodable == [raw |-> "not a Pool"]

InitRaw ==
    /\ storage = [pool |-> Undecodable]
    /\ overflow_checks \in BOOLEAN
    /\ last = Invocation("none", "", U64(0), [pool |-> Undecodable], Ok("none"))
    /\ initializer = ""

SpecRaw == InitRaw /\ [][Next]_vars

\* The lifecycle under retries: the same entry points on the same inputs,
\* looked at through the storage alone.  The invocation record is not kept
\* here, so a call that returns an error, which commits nothing, is a
\* stuttering step and is left to [NextLive]_vars.  Weak fairness on a handler says that the owner keeps
\* retrying: a call that can succeed at some clock value is eventually sent
\* at such a value.
RetryInit ==
    \E sender \in Senders :
        /\ storage' = init(storage, sender).storage
        /\ initializer' = sender
        /\ UNCHANGED <<overflow_checks, last>>

RetryCrtePool ==
    \E sender \in Senders, time \in Times :
        LET out == admin_create_pool(storage, sender, time) IN
        /\ out.res.ok
        /\ storage' = out.storage
        /\ UNCHANGED <<overflow_checks, last, initializer>>

RetryLockPool ==
    \E sender \in Senders, time \in Times :
        LET out == admin_lock_pool(overflow_checks, storage, sender, time) IN
        /\ out.res.ok
        /\ storage' = out.storage
        /\ UNCHANGED <<overflow_checks, last, initializer>>

RetryClsePool ==
    \E sender \in Senders, time \in Times :
        LET out == admin_close_pool(overflow_checks, storage, sender, time) IN
        /\ out.res.ok
        /\ storage' = out.storage
        /\ UNCHANGED <<overflow_checks, last, initializer>>

NextLive ==
    \/ RetryInit
    \/ RetryCrtePool
    \/ RetryLockPool
    \/ RetryClsePool

LiveSpec ==
    /\ Init /\ [][NextLive]_vars
    /\ WF_vars(RetryCrtePool) /\ WF_vars(RetryLockPool) /\ WF_vars(RetryClsePool)

\* ------------------------------------------------- reading an invocation
AdminOps == {"CrtePool", "LockPool", "ClsePool"}

HasConfig(st) == CONFIG_KEY \in DOMAIN st
HasPool(st) == POOL_KEY \in DOMAIN st
StatusOf(st) == IF HasPool(st) THEN st[POOL_KEY].status ELSE "absent"
PoolOf(st) == IF HasPool(st) THEN <<st[POOL_KEY]>> ELSE <<>>

\* the latest invocation was the administrative message op
Called(op) == last.op = op
\* ... sent after initialization by the owner stored at that moment
ByOwner ==
    /\ last.op \in AdminOps
    /\ HasConfig(last.before)
    /\ canonical_address(last.sender) = last.before[CONFIG_KEY].owner
\* ... sent after initialization by anybody else
ByStranger ==
    /\ last.op \in AdminOps
    /\ HasConfig(last.before)
    /\ canonical_address(last.sender) # last.before[CONFIG_KEY].owner

Failed(m) == last.res = Err(GenericErr(m))

\* now >= updated_at + dwell over the integers, by subtraction
DwellElapsed(now, updated_at, dwell) ==
    Ge(now, updated_at) /\ Ge(SubU64(now, updated_at), dwell)

\* --------------------------------------------------------------------- C1
\* C1: every step that changes the pool's status is absent -> OPEN by a
\* successful Create, OPEN -> LOCKED by a successful Lock, LOCKED -> CLOSED
\* by a successful Close or CLOSED -> OPEN by a successful Create; a
\* successful Create starts from an absent or CLOSED pool only.
C1_LegalTransitions ==
    LET from == StatusOf(last.before)
        to == StatusOf(storage)
    IN  /\ from # to =>
            /\ last.res.ok
            /\ \/ from = "absent" /\ to = OPEN /\ Called("CrtePool")
               \/ from = OPEN /\ to = LOCKED /\ Called("LockPool")
               \/ from = LOCKED /\ to = CLOSED /\ Called("ClsePool")
               \/ from = CLOSED /\ to = OPEN /\ Called("CrtePool")
        /\ Called("CrtePool") /\ last.res.ok => from \in {"absent", CLOSED} /\ to = OPEN
        /\ Called("LockPool") /\ last.res.ok => from = OPEN /\ to = LOCKED
        /\ Called("ClsePool") /\ last.res.ok => from = LOCKED /\ to = CLOSED

\* a pool that went through its whole life is overwritten by Create
C1_Witness ==
    Called("CrtePool") /\ last.res.ok /\ StatusOf(last.before) = CLOSED

\* --------------------------------------------------------------------- C2
\* C2: after initialization a Create, Lock or Close whose sender is not the
\* owner returns Unauthorized, whatever the pool state and the clock.
C2_UnauthorizedFirst == ByStranger => last.res = Err(Unauthorized)

\* a stranger's Lock on a LOCKED pool: the status check would fail as well
C2_Witness ==
    /\ ByStranger /\ Called("LockPool") /\ StatusOf(last.before) = LOCKED
    /\ last.res = Err(Unauthorized)

\* --------------------------------------------------------------------- C3
\* C3: the Pool record is created or changed only by a Create, Lock or Close
\* whose sender is the owner stored in Config when the call is made.
C3_OnlyOwnerMutatesPool == PoolOf(last.before) # PoolOf(storage) => ByOwner

C3_Witness ==
    /\ PoolOf(last.before) # PoolOf(storage) /\ Called("ClsePool") /\ ByOwner

\* --------------------------------------------------------------------- C4
\* C4: a Create, Lock or Close that returns an error leaves Config and Pool
\* as they were before the call.
C4_FailedCallKeepsStorage ==
    last.op \in AdminOps /\ ~last.res.ok => storage = last.before

\* a premature Close on a LOCKED pool
C4_Witness ==
    /\ Called("ClsePool") /\ ByOwner /\ StatusOf(last.before) = LOCKED
    /\ Failed("Pool has to be LOCKED for 21 day")
    /\ storage = last.before

\* --------------------------------------------------------------------- C5
\* C5: a Lock by the owner on an OPEN pool succeeds exactly when
\* now >= status_updated_at + 86400 over the integers, fails before that with
\* 'Pool has to be OPEN for 1 day', and on success stores status LOCKED and
\* status_updated_at = now, the rest of the storage unchanged.
C5_LockIffOneDay ==
    Called("LockPool") /\ ByOwner /\ StatusOf(last.before) = OPEN =>
        LET old == last.before[POOL_KEY]
            elapsed == DwellElapsed(last.time, old.status_updated_at, U64(86400))
        IN  /\ last.res.ok <=> elapsed
            /\ ~elapsed => Failed("Pool has to be OPEN for 1 day")
            /\ last.res.ok =>
                storage = [last.before EXCEPT ![POOL_KEY] =
                    [old EXCEPT !.status = LOCKED, !.status_updated_at = last.time]]

\* --------------------------------------------------------------------- C6
\* C6: a Close by the owner on a LOCKED pool succeeds exactly when
\* now >= status_updated_at + 1814400 over the integers, fails before that
\* with 'Pool has to be LOCKED for 21 day', and on success stores status
\* CLOSED and status_updated_at = now, the rest of the storage unchanged.
C6_CloseIffTwentyOneDays ==
    Called("ClsePool") /\ ByOwner /\ StatusOf(last.before) = LOCKED =>
        LET old == last.before[POOL_KEY]
            elapsed == DwellElapsed(last.time, old.status_updated_at, U64(1814400))
        IN  /\ last.res.ok <=> elapsed
            /\ ~elapsed => Failed("Pool has to be LOCKED for 21 day")
            /\ last.res.ok =>
                storage = [last.before EXCEPT ![POOL_KEY] =
                    [old EXCEPT !.status = CLOSED, !.status_updated_at = last.time]]

\* --------------------------------------------------------------------- C7
\* C7: a Create by the owner succeeds exactly when no Pool record exists or
\* the stored Pool is CLOSED, fails with 'Cannot create' otherwise, and on
\* success stores exactly the fresh pool {OPEN, now, 0, no delegators}.
C7_CreateIffAbsentOrClosed ==
    Called("CrtePool") /\ ByOwner =>
        LET free == ~HasPool(last.before) \/ last.before[POOL_KEY].status = CLOSED
        IN  /\ last.res.ok <=> free
            /\ ~free => Failed("Cannot create")
            /\ last.res.ok =>
                /\ HasPool(storage)
                /\ storage[POOL_KEY] =
                       [delegated_amt |-> 0, delegators |-> <<>>, status |-> OPEN,
                        status_updated_at |-> last.time]

\* a CLOSED pool overwritten at a later clock value than its own
C7_Witness ==
    /\ Called("CrtePool") /\ ByOwner /\ last.res.ok
    /\ StatusOf(last.before) = CLOSED
    /\ storage[POOL_KEY].status_updated_at # last.before[POOL_KEY].status_updated_at

\* --------------------------------------------------------------------- C8
\* C8: a successful Lock or Close never stores a status_updated_at smaller
\* than the one it replaces.
C8_UpdatedAtNeverDecreases ==
    last.op \in {"LockPool", "ClsePool"} /\ last.res.ok =>
        Ge(storage[POOL_KEY].status_updated_at,
           last.before[POOL_KEY].status_updated_at)

\* --------------------------------------------------------------------- C9
\* C9 as stated: a Lock by the owner fails with 'Pool must be in OPEN status
\* to be locked.' when the pool is LOCKED, CLOSED or absent.
C9_LockNeedsOpen_Stated ==
    Called("LockPool") /\ ByOwner /\ StatusOf(last.before) # OPEN =>
        Failed("Pool must be in OPEN status to be locked.")

\* C9 amended: a Lock by the owner fails with 'Pool must be in OPEN status
\* to be locked.' when the pool is LOCKED or CLOSED; when no Pool record
\* exists it fails with the not-found error of the Pool load.
C9_LockNeedsOpen ==
    Called("LockPool") /\ ByOwner =>
        /\ StatusOf(last.before) \in {LOCKED, CLOSED} =>
               Failed("Pool must be in OPEN status to be locked.")
        /\ StatusOf(last.before) = "absent" => last.res = Err(NotFound("Pool"))

\* a second Lock, after the 21 days of the LOCKED pool
C9_Witness ==
    /\ Called("LockPool") /\ ByOwner /\ StatusOf(last.before) = LOCKED
    /\ DwellElapsed(last.time, last.before[POOL_KEY].status_updated_at, U64(21 * DAYS))
    /\ Failed("Pool must be in OPEN status to be locked.")

\* -------------------------------------------------------------------- C10
\* C10 as stated: a Close by the owner fails with 'Pool is not LOCKED.' when
\* the pool is OPEN, CLOSED or absent.
C10_CloseNeedsLocked_Stated ==
    Called("ClsePool") /\ ByOwner /\ StatusOf(last.before) # LOCKED =>
        Failed("Pool is not LOCKED.")

\* C10 amended: a Close by the owner fails with 'Pool is not LOCKED.' when
\* the pool is OPEN or CLOSED; when no Pool record exists it fails with the
\* not-found error of the Pool load.
C10_CloseNeedsLocked ==
    Called("ClsePool") /\ ByOwner =>
        /\ StatusOf(last.before) \in {OPEN, CLOSED} => Failed("Pool is not LOCKED.")
        /\ StatusOf(last.before) = "absent" => last.res = Err(NotFound("Pool"))

\* Create followed at once by Close
C10_Witness ==
    /\ Called("ClsePool") /\ ByOwner /\ StatusOf(last.before) = OPEN
    /\ last.time = last.before[POOL_KEY].status_updated_at
    /\ Failed("Pool is not LOCKED.")

\* -------------------------------------------------------------------- C11
\* C11: GetOwner and GetCurrentPool leave Config and Pool as they are;
\* GetCurrentPool returns pool = null when no Pool record exists and the
\* stored Pool record otherwise; after initialization GetOwner returns the
\* human address of the sender that initialized the contract.
Queries == {"GetOwner", "GetCurrentPool"}

C11_QueriesReadOnly ==
    /\ last.op \in Queries => storage = last.before
    /\ Called("GetCurrentPool") =>
           last.res = Ok([pool |-> IF HasPool(storage) THEN <<storage[POOL_KEY]>> ELSE <<>>])
    /\ Called("GetOwner") /\ HasConfig(last.before) =>
           last.res = Ok([owner |-> initializer])

\* the snapshot of a LOCKED pool, i.e. the result of the last successful Lock
C11_Witness ==
    /\ Called("GetCurrentPool") /\ StatusOf(storage) = LOCKED
    /\ last.res = Ok([pool |-> <<storage[POOL_KEY]>>])

\* -------------------------------------------------------------------- C12
\* C12: after initialization no Create, Lock, Close, GetOwner or
\* GetCurrentPool call, successful or not, changes Config: owner stays the
\* initializing sender and count stays 0.
C12_ConfigFrozen ==
    /\ HasConfig(last.before) /\ last.op \in AdminOps \cup Queries =>
           HasConfig(storage) /\ storage[CONFIG_KEY] = last.before[CONFIG_KEY]
    /\ HasConfig(storage) =>
           storage[CONFIG_KEY] = [count |-> 0, owner |-> canonical_address(initializer)]

\* a whole lifecycle has run under the owner that initialized the contract
C12_Witness ==
    /\ Called("ClsePool") /\ ByOwner /\ last.res.ok
    /\ storage[CONFIG_KEY] = [count |-> 0, owner |-> canonical_address(initializer)]

\* -------------------------------------------------------------------- C13
\* C13: when the Pool record exists but cannot be decoded, GetCurrentPool
\* returns that read error (not pool = null), and a Create by the owner
\* fails with that read error and leaves the record as it is (it does not
\* overwrite it as if it were absent).
PoolUnreadable(st) == HasPool(st) /\ ~Deserializes(st[POOL_KEY], "Pool")

C13_ReadErrorsPropagate ==
    /\ Called("GetCurrentPool") /\ PoolUnreadable(last.before) =>
           last.res = Err(ParseErr("Pool"))
    /\ Called("CrtePool") /\ ByOwner /\ PoolUnreadable(last.before) =>
           last.res = Err(ParseErr("Pool")) /\ storage = last.before

\* -------------------------------------------------------------------- C14
\* C14: whenever a Pool record exists, delegated_amt = 0 and delegators is
\* empty.
C14_NothingDelegated ==
    HasPool(storage) =>
        storage[POOL_KEY].delegated_amt = 0 /\ storage[POOL_KEY].delegators = <<>>

\* a pool that Lock and Close have both rewritten
C14_Witness ==
    /\ StatusOf(storage) = CLOSED
    /\ storage[POOL_KEY].delegated_amt = 0 /\ storage[POOL_KEY].delegators = <<>>

\* -------------------------------------------------------------------- C15
\* C15: an init call on an initialized contract by a different sender
\* overwrites Config.owner with that sender and leaves the Pool record
\* untouched; in the call that follows, a Create, Lock or Close by the
\* previous owner returns Unauthorized and one by the new owner does not.
Reinitialized ==
    /\ Called("Init") /\ HasConfig(last.before)
    /\ last.before[CONFIG_KEY].owner # canonical_address(last.sender)

C15_ReinitHandsOverStep ==
    /\ Reinitialized =>
           /\ storage[CONFIG_KEY].owner = canonical_address(last.sender)
           /\ PoolOf(storage) = PoolOf(last.before)
    /\ Reinitialized /\ last'.op \in AdminOps =>
           /\ canonical_address(last'.sender) = last.before[CONFIG_KEY].owner =>
                  last'.res = Err(Unauthorized) /\ storage' = storage
           /\ last'.sender = last.sender =>
                  last'.res # Err(Unauthorized) /\ last'.res # Err(NotFound("State"))

C15_ReinitHandsOver == [][C15_ReinitHandsOverStep]_vars

\* the owner replaced while a LOCKED pool exists
C15_Witness ==
    /\ Reinitialized /\ StatusOf(last.before) = LOCKED
    /\ storage[CONFIG_KEY].owner = canonical_address(last.sender)
    /\ PoolOf(storage) = PoolOf(last.before)

\* -------------------------------------------------------------------- C16
\* C16: a Create by the owner on a CLOSED pool succeeds at every clock
\* value, also one equal to or smaller than the CLOSED pool's
\* status_updated_at, and the dwell check of a CLOSED pool succeeds at every
\* clock value.
C16_CreateNotDwellGated ==
    /\ Called("CrtePool") /\ ByOwner /\ StatusOf(last.before) = CLOSED =>
           /\ last.res.ok
           /\ storage[POOL_KEY] = Pool_new(last.time)
    /\ StatusOf(storage) = CLOSED =>
           \A t \in Times :
               assert_ready_for_status_change(overflow_checks, storage[POOL_KEY], t)
                   = Ok(<<>>)

\* a CLOSED pool overwritten at a clock value before its own
C16_Witness ==
    /\ Called("CrtePool") /\ ByOwner /\ StatusOf(last.before) = CLOSED
    /\ Gt(last.before[POOL_KEY].status_updated_at, last.time)
    /\ last.res.ok

\* -------------------------------------------------------------------- C17
\* C17: the OPEN-dwell error is returned only by a Lock of the owner on an
\* OPEN pool and the LOCKED-dwell error only by a Close of the owner on a
\* LOCKED pool; a Lock on a LOCKED pool returns 'Pool must be in OPEN status
\* to be locked.' and a Close on an OPEN pool returns 'Pool is not LOCKED.',
\* whether or not the dwell time of that pool has elapsed.
C17_StatusBeforeDwell ==
    /\ Failed("Pool has to be OPEN for 1 day") =>
           Called("LockPool") /\ ByOwner /\ StatusOf(last.before) = OPEN
    /\ Failed("Pool has to be LOCKED for 21 day") =>
           Called("ClsePool") /\ ByOwner /\ StatusOf(last.before) = LOCKED
    /\ Called("LockPool") /\ ByOwner /\ StatusOf(last.before) = LOCKED =>
           Failed("Pool must be in OPEN status to be locked.")
    /\ Called("ClsePool") /\ ByOwner /\ StatusOf(last.before) = OPEN =>
           Failed("Pool is not LOCKED.")

\* a Lock on a LOCKED pool whose 21 days have not elapsed
C17_Witness ==
    /\ Called("LockPool") /\ ByOwner /\ StatusOf(last.before) = LOCKED
    /\ ~DwellElapsed(last.time, last.before[POOL_KEY].status_updated_at, U64(21 * DAYS))
    /\ Failed("Pool must be in OPEN status to be locked.")

\* -------------------------------------------------------------------- C18
\* C18: for every u64 status_updated_at and clock value, a Lock is admitted
\* only when now - status_updated_at >= 86400 and a Close only when
\* now - status_updated_at >= 1814400 over the integers, and an admitted
\* transition never stores a status_updated_at smaller than the previous one.
C18_DwellSumNeverWraps ==
    LET old == last.before[POOL_KEY].status_updated_at IN
    /\ Called("LockPool") /\ last.res.ok => DwellElapsed(last.time, old, U64(86400))
    /\ Called("ClsePool") /\ last.res.ok => DwellElapsed(last.time, old, U64(1814400))
    /\ last.op \in {"LockPool", "ClsePool"} /\ last.res.ok =>
           ~Gt(old, storage[POOL_KEY].status_updated_at)

\* -------------------------------------------------------------------- C19
\* C19: while no Config record exists, every Create, Lock and Close fails
\* (the Config load is not found) and changes nothing, so no Pool record
\* exists in a storage without Config.
C19_NothingBeforeInit ==
    /\ ~HasConfig(storage) => ~HasPool(storage)
    /\ last.op \in AdminOps /\ ~HasConfig(last.before) =>
           last.res = Err(NotFound("State")) /\ storage = last.before

\* a Create sent before init
C19_Witness ==
    /\ Called("CrtePool") /\ ~HasConfig(last.before)
    /\ ~last.res.ok /\ ~HasPool(storage)

\* -------------------------------------------------------------------- C20
\* the pool record st holds has the given status and status_updated_at
PoolIs(st, status, at) ==
    HasPool(st) /\ st[POOL_KEY].status = status
                /\ st[POOL_KEY].status_updated_at = U64(at)

\* the deadline status_updated_at + dwell of the stored pool is a u64
DeadlineFits(dwell) ==
    ~AddOverflows(storage[POOL_KEY].status_updated_at, U64(dwell))

\* the cycle Create at 1000, Lock at 87400, Close at 1901800, Create at
\* 1901801 by the owner succeeds at every step: each call, sent in the state
\* the previous one leaves, returns Ok and stores the next pool of the cycle
CycleStep(st, out, status, at) ==
    /\ out.res = Ok("HandleResponse")
    /\ out.storage = [st EXCEPT ![POOL_KEY] =
           [delegated_amt |-> 0, delegators |-> <<>>, status |-> status,
            status_updated_at |-> U64(at)]]

CycleSucceeds ==
    /\ HasConfig(storage) /\ ~HasPool(storage) =>
           LET out == admin_create_pool(storage, initializer, U64(1000))
           IN  out.res = Ok("HandleResponse") /\ PoolIs(out.storage, OPEN, 1000)
    /\ PoolIs(storage, OPEN, 1000) =>
           CycleStep(storage,
                     admin_lock_pool(overflow_checks, storage, initializer, U64(87400)),
                     LOCKED, 87400)
    /\ PoolIs(storage, LOCKED, 87400) =>
           CycleStep(storage,
                     admin_close_pool(overflow_checks, storage, initializer, U64(1901800)),
                     CLOSED, 1901800)
    /\ PoolIs(storage, CLOSED, 1901800) =>
           CycleStep(storage,
                     admin_create_pool(storage, initializer, U64(1901801)),
                     OPEN, 1901801)

====
